---- MODULE Spec2Model ----
(***************************************************************************)
(* A model of homework4.cpp: one thread per command-line argument fetches  *)
(* a text over HTTP, skips the response header, counts the words and the   *)
(* words found in the dictionary, and main prints the statistics of every  *)
(* argument after joining all threads.                                     *)
(*                                                                         *)
(* Characters are one-character strings, texts (streams, lines) are        *)
(* sequences of characters, words and result lines are strings.            *)
(***************************************************************************)
EXTENDS Integers, Sequences, FiniteSets, TLC

\* ------------------------------------------------------------------ bounds

\* Most threads main spawns (argc - 1).
MaxTasks == 2
\* Longest response stream of the exhaustively enumerated single-task runs.
MaxLen == 4

\* ------------------------------------------------------- character classes

Uppers == <<"A","B","C","D","E","F","G","H","I","J","K","L","M",
            "N","O","P","Q","R","S","T","U","V","W","X","Y","Z">>
Lowers == <<"a","b","c","d","e","f","g","h","i","j","k","l","m",
            "n","o","p","q","r","s","t","u","v","w","x","y","z">>

\* ::isspace in the "C" locale (the whitespace operator>> skips).
isspace(c) == c \in {" ", "\t", "\n", "\f", "\r"}

\* ::ispunct in the "C" locale, on the punctuation the model's texts use.
ispunct(c) == c \in {".", ",", ";", ":", "!", "?", "/", "-", "'"}

\* ::tolower: an upper-case letter gives its lower-case letter, any other
\* character is unchanged.
tolower(c) ==
    IF \E k \in DOMAIN Uppers : Uppers[k] = c
    THEN Lowers[CHOOSE k \in DOMAIN Uppers : Uppers[k] = c]
    ELSE c

\* A std::string built from its characters.
RECURSIVE Str(_)
Str(s) == IF s = <<>> THEN "" ELSE Head(s) \o Str(Tail(s))

Min(S) == CHOOSE m \in S : \A n \in S : m <= n

\* ------------------------------------------------------- stream operations
\* A stream is read at position pos (the number of characters consumed) of
\* its text s; closes says whether the text ends (end of file, or the server
\* closing the connection). bits is the stream's state: "eof", "fail".

\* A read with a timeout: std::getline never waits for good, and takes what
\* has arrived for the whole stream.
GetLineTimesOut(s, pos, closes, bits) == FALSE

\* std::getline(is, hdr) cannot return yet: no newline in what has arrived
\* and the stream does not end.
GetLineBlocks(s, pos, closes, bits) ==
    /\ bits = {}
    /\ ~closes
    /\ \A k \in (pos + 1)..Len(s) : s[k] # "\n"

\* std::getline(is, hdr): with the stream not good the sentry fails, failbit
\* is set and hdr keeps its value; else hdr is cleared and gets the
\* characters up to the next newline, which is consumed and not stored; at
\* the end of the stream eofbit is set, with failbit when nothing was read.
GetLine(s, pos, bits, hdr) ==
    IF bits # {}
    THEN [str |-> hdr, pos |-> pos, bits |-> bits \cup {"fail"}]
    ELSE LET nl == {k \in (pos + 1)..Len(s) : s[k] = "\n"}
         IN IF nl # {}
            THEN [str |-> SubSeq(s, pos + 1, Min(nl) - 1), pos |-> Min(nl),
                  bits |-> {}]
            ELSE [str |-> SubSeq(s, pos + 1, Len(s)), pos |-> Len(s),
                  bits |-> IF pos = Len(s) THEN {"eof", "fail"} ELSE {"eof"}]

\* is >> str cannot return yet: after the leading whitespace no whitespace
\* ends the word in what has arrived and the stream does not end.
ExtractBlocks(s, pos, closes, bits) ==
    /\ bits = {}
    /\ ~closes
    /\ LET ns == {k \in (pos + 1)..Len(s) : ~isspace(s[k])}
       IN \/ ns = {}
          \/ \A k \in Min(ns)..Len(s) : ~isspace(s[k])

\* is >> str: with the stream not good failbit is set and str keeps its
\* value; else leading whitespace is skipped and the characters up to the
\* next whitespace (left in the stream) are extracted; at the end of the
\* stream eofbit is set, with failbit (and str unchanged) when only
\* whitespace was left.
Extract(s, pos, bits, str) ==
    IF bits # {}
    THEN [str |-> str, pos |-> pos, bits |-> bits \cup {"fail"}]
    ELSE LET ns == {k \in (pos + 1)..Len(s) : ~isspace(s[k])}
         IN IF ns = {}
            THEN [str |-> str, pos |-> Len(s), bits |-> {"eof", "fail"}]
            ELSE LET b  == Min(ns)
                     ws == {k \in b..Len(s) : isspace(s[k])}
                 IN IF ws # {}
                    THEN [str |-> SubSeq(s, b, Min(ws) - 1),
                          pos |-> Min(ws) - 1, bits |-> {}]
                    ELSE [str |-> SubSeq(s, b, Len(s)), pos |-> Len(s),
                          bits |-> {"eof"}]

\* A stream's conversion to bool: !fail().
Good(bits) == "fail" \notin bits

\* ------------------------------------------------------------------ state

VARIABLES
    english,     \* the file english.txt: [exists, text]
    dictionary,  \* the global Dictionary: a map from words to bool
    argc,        \* main's argc
    argv,        \* main's argv, argv[0] the program's name
    resp,        \* resp[t]: what the server does with thread t's connection:
                 \* [net: "ok" | "refused", text, closes]
    mpc,         \* main's position: "spawn", "join", "print", "done"
    i,           \* the loop variable of main's spawn loop
    thrList,     \* main's list of threads
    j,           \* the position of main's join loop in thrList
    p,           \* the loop variable of main's print loop
    stats,       \* main's vector of results, one slot per argument
    out,         \* the lines written to std::cout
    exitCode,    \* the value main returned, -1 while it runs
    thr,         \* thr[t]: the locals of the thread main spawned for i = t
    writes,      \* writes[k]: the threads that assigned stats[k], in order
    finished     \* the threads in the order in which they finished

vars == <<english, dictionary, argc, argv, resp, mpc, i, thrList, j, p,
          stats, out, exitCode, thr, writes, finished>>

env == <<english, dictionary, argc, argv, resp>>
mainVars == <<mpc, i, thrList, j, p, out, exitCode>>

Threads == 1..MaxTasks

\* -------------------------------------------------------------- dictionary

\* The body of loadDictionary's loop, while (in >> line) result[line] = true.
RECURSIVE LoadWords(_, _, _, _)
LoadWords(s, pos, bits, result) ==
    LET r == Extract(s, pos, bits, <<>>)
    IN IF Good(r.bits)
       THEN LoadWords(s, r.pos, r.bits,
                      [w \in DOMAIN result \cup {Str(r.str)} |-> TRUE])
       ELSE result

\* loadDictionary(filePath): an ifstream of a file that cannot be opened is
\* failed from the start, and the result is the empty map.
loadDictionary(file) ==
    LoadWords(file.text, 0, IF file.exists THEN {} ELSE {"fail"},
              [w \in {} |-> TRUE])

\* The loop of checkWord over the entries still to visit: no early exit, and
\* isEng is only ever set to true.
RECURSIVE ScanDictionary(_, _, _)
ScanDictionary(keys, word, isEng) ==
    IF keys = {}
    THEN isEng
    ELSE LET a == CHOOSE k \in keys : TRUE
         IN ScanDictionary(keys \ {a}, word,
                IF a = word /\ dictionary[a] = TRUE THEN TRUE ELSE isEng)

\* checkWord with the assignment isEng = (a.first == word && a.second):
\* the last entry visited decides.
RECURSIVE ScanDictionaryLast(_, _, _)
ScanDictionaryLast(keys, word, isEng) ==
    IF keys = {}
    THEN isEng
    ELSE LET a == CHOOSE k \in keys : TRUE
         IN ScanDictionaryLast(keys \ {a}, word,
                               a = word /\ dictionary[a] = TRUE)

\* The dictionary after a lookup by dictionary[word] on a map that is not
\* const: operator[] inserts a missing word, with the value false.
DictionaryAfterIndexing(word) ==
    [w \in DOMAIN dictionary \cup {word} |->
        IF w \in DOMAIN dictionary THEN dictionary[w] ELSE FALSE]

\* The dictionary after a call of checkWord: the map is const and the loop
\* only reads its entries.
DictionaryAfter(word) == dictionary

checkWordLastEntry(word) == ScanDictionaryLast(DOMAIN dictionary, word, FALSE)

checkWord(word) == ScanDictionary(DOMAIN dictionary, word, FALSE)

\* ------------------------------------------------------------ processFile

\* A single std::getline in place of the loop: only the first line of the
\* response is skipped.
HeaderSkipsOneLine(r) == FALSE

\* The header loop's condition with the test of "\r" inverted
\* (hdr == "\r"): the loop stops at the first line that is not "\r".
HeaderContinuesInverted(r) ==
    Good(r.bits) /\ r.str # <<>> /\ r.str = <<"\r">>

\* The header loop's condition without the test of "\r": only an empty line
\* ends the header.
HeaderContinuesNoCR(r) == Good(r.bits) /\ r.str # <<>>

\* The header loop's condition without the test of the stream:
\* !hdr.empty() && hdr != "\r" alone.
HeaderContinuesNoStream(r) == r.str # <<>> /\ r.str # <<"\r">>

\* The condition of the header loop, on what std::getline returned:
\* std::getline(is, hdr) && !hdr.empty() && hdr != "\r".
HeaderContinues(r) == Good(r.bits) /\ r.str # <<>> /\ r.str # <<"\r">>

\* Punctuation erased instead of replaced (std::remove_if and erase).
RemovePunct(line) == SelectSeq(line, LAMBDA c : ~ispunct(c))

\* std::replace_if(line.begin(), line.end(), ::ispunct, ' ').
ReplacePunct(line) ==
    [k \in DOMAIN line |-> IF ispunct(line[k]) THEN " " ELSE line[k]]

\* std::transform(line.begin(), line.end(), line.begin(), ::tolower).
ToLower(line) == [k \in DOMAIN line |-> tolower(line[k])]

\* The counters as statics shared by all calls of processFile: every thread
\* counts on from the highest value any thread has reached.
RECURSIVE MaxOf(_)
MaxOf(S) == IF S = {} THEN 0
            ELSE LET x == CHOOSE y \in S : TRUE
                     m == MaxOf(S \ {x})
                 IN IF x > m THEN x ELSE m
TallyShared(t) ==
    [wordCount    |-> MaxOf({thr[u].wordCount : u \in Threads}),
     englishWords |-> MaxOf({thr[u].englishWords : u \in Threads})]

\* The counters as statics that no call resets: a call starts from the
\* highest values the calls before it have reached.
InitialTallyStatic(t) ==
    [wordCount    |-> MaxOf({thr[u].wordCount : u \in Threads}),
     englishWords |-> MaxOf({thr[u].englishWords : u \in Threads})]

\* int wordCount = 0; int englishWords = 0; at the start of every call of
\* processFile.
InitialTally(t) == [wordCount |-> 0, englishWords |-> 0]

\* The counters wordCount and englishWords are locals of the call of
\* processFile that thread t makes.
Tally(t) ==
    [wordCount |-> thr[t].wordCount, englishWords |-> thr[t].englishWords]

\* The counters with the two increments exchanged: englishWords counts every
\* word and wordCount the recognized ones.
AccumulateExchanged(tally, isEng) ==
    [wordCount    |-> IF isEng = TRUE THEN tally.wordCount + 1
                      ELSE tally.wordCount,
     englishWords |-> tally.englishWords + 1]

\* The body of the inner loop after the call of checkWord: englishWords++
\* when isEng is true, wordCount++ for each word.
Accumulate(tally, isEng) ==
    [wordCount    |-> tally.wordCount + 1,
     englishWords |-> IF isEng = TRUE THEN tally.englishWords + 1
                      ELSE tally.englishWords]

\* The string processFile returns.
Results(file, wordCount, englishWords) ==
    file \o ": words=" \o ToString(wordCount) \o
        ", English words=" \o ToString(englishWords)

\* ------------------------------------------------------------ the threads

\* The lambda capturing i by reference: it reads main's loop variable when
\* it runs.
CapturedByReference(t) == i

\* The lambda [&, i]: i is captured by value when the thread is created.
Captured(t) == thr[t].i

\* argv[k]; main's argv ends at argc.
Arg(k) == IF k \in DOMAIN argv THEN argv[k] ELSE ""

\* The request getStats writes to the stream.
Request(file) ==
    "GET " \o "/~raodm/cse381/hw4/SlowGet.cgi?file=" \o file \o
        " HTTP/1.1\r\n" \o "Host: " \o "os1.csi.miamioh.edu" \o "\r\n" \o
        "Connection: Close\r\n\r\n"

\* getStats(argv[i]) up to the construction of the tcp::iostream: a
\* connection that cannot be made leaves the stream failed, nothing is thrown.
Connect(t) ==
    /\ thr[t].pc = "connect"
    /\ thr' = [thr EXCEPT ![t].pc = "request",
                          ![t].file = Arg(Captured(t)),
                          ![t].open = (resp[t].net = "ok"),
                          ![t].bits = IF resp[t].net = "ok" THEN {}
                                      ELSE {"fail"}]
    /\ UNCHANGED <<env, mainVars, stats, writes, finished>>

\* data << "GET " ...: written when the stream is good, dropped otherwise;
\* then the call of processFile and the initialisation of its counters.
SendRequest(t) ==
    /\ thr[t].pc = "request"
    /\ thr' = [thr EXCEPT ![t].pc = "header",
                          ![t].sent = IF thr[t].bits = {}
                                      THEN Request(thr[t].file) ELSE "",
                          ![t].hdr = <<>>,
                          ![t].wordCount = InitialTally(t).wordCount,
                          ![t].englishWords = InitialTally(t).englishWords]
    /\ UNCHANGED <<env, mainVars, stats, writes, finished>>

\* One iteration of the header loop.
HeaderLine(t) ==
    /\ thr[t].pc = "header"
    /\ ~GetLineBlocks(resp[t].text, thr[t].pos, resp[t].closes, thr[t].bits)
    /\ LET r == GetLine(resp[t].text, thr[t].pos, thr[t].bits, thr[t].hdr)
       IN thr' = [thr EXCEPT ![t].pc = IF HeaderContinues(r) THEN "header"
                                       ELSE "payload",
                             ![t].hdr = r.str,
                             ![t].pos = r.pos,
                             ![t].bits = r.bits,
                             ![t].hdrEnd = r.pos]
    /\ UNCHANGED <<env, mainVars, stats, writes, finished>>

\* while (is >> line): the test of the outer loop and, when it holds, the
\* replacement of punctuation, the lower-casing and the stringstream.
ReadLine(t) ==
    /\ thr[t].pc = "payload"
    /\ ~ExtractBlocks(resp[t].text, thr[t].pos, resp[t].closes, thr[t].bits)
    /\ LET r == Extract(resp[t].text, thr[t].pos, thr[t].bits, thr[t].line)
           line == ToLower(ReplacePunct(r.str))
       IN IF Good(r.bits)
          THEN thr' = [thr EXCEPT ![t].pc = "words",
                                  ![t].pos = r.pos,
                                  ![t].bits = r.bits,
                                  ![t].line = line,
                                  ![t].ss = [text |-> line, pos |-> 0,
                                             bits |-> {}]]
          ELSE thr' = [thr EXCEPT ![t].pc = "return",
                                  ![t].pos = r.pos,
                                  ![t].bits = r.bits]
    /\ UNCHANGED <<env, mainVars, stats, writes, finished>>

\* while (ss >> word): the test of the inner loop and, when it holds, the
\* call of checkWord and the two counters.
NextWord(t) ==
    /\ thr[t].pc = "words"
    /\ LET r == Extract(thr[t].ss.text, thr[t].ss.pos, thr[t].ss.bits, <<>>)
           word == Str(r.str)
           isEng == checkWord(word)
       IN IF Good(r.bits)
          THEN /\ thr' = [thr EXCEPT
                  ![t].ss = [text |-> thr[t].ss.text, pos |-> r.pos,
                             bits |-> r.bits],
                  ![t].word = word,
                  ![t].englishWords =
                      Accumulate(Tally(t), isEng).englishWords,
                  ![t].wordCount = Accumulate(Tally(t), isEng).wordCount,
                  ![t].toks = Append(@, word),
                  ![t].cls = Append(@, isEng)]
               /\ dictionary' = DictionaryAfter(word)
          ELSE /\ thr' = [thr EXCEPT
                     ![t].pc = "payload",
                     ![t].ss = [text |-> thr[t].ss.text, pos |-> r.pos,
                                bits |-> r.bits]]
               /\ UNCHANGED dictionary
    /\ UNCHANGED <<english, argc, argv, resp, mainVars, stats, writes,
                   finished>>

\* The stream allocated with new and never deleted: the connection stays as
\* it was when getStats returns.
OpenAfterScopeLeaked(open) == open

\* Whether the connection is open after getStats returned: data is a local
\* of getStats, and its destructor closes the socket.
OpenAfterScope(open) == FALSE

\* getStats testing the connection before it returns, and returning a
\* failure line in place of the statistics when it is not open.
ReturnedTested(t) ==
    IF thr[t].open
    THEN Results(thr[t].file, Tally(t).wordCount, Tally(t).englishWords)
    ELSE thr[t].file \o ": connection failed"

\* What getStats returns: the string processFile built from the counters,
\* whatever the state of the stream.
Returned(t) ==
    Results(thr[t].file, Tally(t).wordCount, Tally(t).englishWords)

\* processFile builds its result and returns it, getStats returns it: the
\* tcp::iostream data goes out of scope, which closes the connection.
Return(t) ==
    /\ thr[t].pc = "return"
    /\ thr' = [thr EXCEPT ![t].pc = "store",
                          ![t].results = Returned(t),
                          ![t].open = OpenAfterScope(thr[t].open)]
    /\ UNCHANGED <<env, mainVars, stats, writes, finished>>

\* stats[i] = <the string getStats returned>, and the thread ends.
Store(t) ==
    /\ thr[t].pc = "store"
    /\ stats' = [stats EXCEPT ![Captured(t)] = thr[t].results]
    /\ writes' = [writes EXCEPT ![Captured(t)] = Append(@, t)]
    /\ thr' = [thr EXCEPT ![t].pc = "done"]
    /\ finished' = Append(finished, t)
    /\ UNCHANGED <<env, mainVars>>

Thread(t) ==
    \/ Connect(t)
    \/ SendRequest(t)
    \/ HeaderLine(t)
    \/ ReadLine(t)
    \/ NextWord(t)
    \/ Return(t)
    \/ Store(t)

\* -------------------------------------------------------------------- main

\* No wait for the thread (detach in place of join).
JoinedDetached(t) == TRUE

\* thr.join() returns once the thread has finished.
Joined(t) == thr[t].pc = "done"

\* The print loop indexing by completion: the k-th line is the result of the
\* k-th thread to finish.
PrintSlotCompletion(k) == IF k \in DOMAIN finished THEN finished[k] ELSE k

\* The slot the print loop writes in its iteration i = k: stats[i].
PrintSlot(k) == k

\* The body of the first loop: thrList.push_back(std::thread(...)).
Spawn ==
    /\ mpc = "spawn"
    /\ i < argc
    /\ thrList' = Append(thrList, i)
    /\ thr' = [thr EXCEPT ![i].pc = "connect", ![i].i = i]
    /\ i' = i + 1
    /\ UNCHANGED <<env, mpc, j, p, stats, out, exitCode, writes, finished>>

\* The first loop ends.
SpawnDone ==
    /\ mpc = "spawn"
    /\ ~(i < argc)
    /\ mpc' = "join"
    /\ j' = 1
    /\ UNCHANGED <<env, i, thrList, p, stats, out, exitCode, thr, writes,
                   finished>>

\* The body of the second loop: thr.join().
Join ==
    /\ mpc = "join"
    /\ j <= Len(thrList)
    /\ Joined(thrList[j])
    /\ j' = j + 1
    /\ UNCHANGED <<env, mpc, i, thrList, p, stats, out, exitCode, thr,
                   writes, finished>>

\* The second loop ends.
JoinDone ==
    /\ mpc = "join"
    /\ j > Len(thrList)
    /\ mpc' = "print"
    /\ p' = 1
    /\ UNCHANGED <<env, i, thrList, j, stats, out, exitCode, thr, writes,
                   finished>>

\* The body of the third loop: std::cout << stats[i] << '\n'.
PrintLine ==
    /\ mpc = "print"
    /\ p < argc
    /\ out' = Append(out, stats[PrintSlot(p)])
    /\ p' = p + 1
    /\ UNCHANGED <<env, mpc, i, thrList, j, stats, exitCode, thr, writes,
                   finished>>

\* The third loop ends and main returns 0.
Exit ==
    /\ mpc = "print"
    /\ ~(p < argc)
    /\ mpc' = "done"
    /\ exitCode' = 0
    /\ UNCHANGED <<env, i, thrList, j, p, stats, out, thr, writes, finished>>

\* ------------------------------------------------------------ initial states

\* english.txt as the runs have it, and the file missing.
EnglishText ==
    <<"a", " ", "a", "b", "\n", "t", "h", "e", " ", "q", "u", "i", "c", "k",
      " ", "f", "o", "x", "\n">>
English == [exists |-> TRUE, text |-> EnglishText]
NoEnglish == [exists |-> FALSE, text |-> <<>>]
\* A word list with an upper-case word and a repeated word.
OtherEnglish ==
    [exists |-> TRUE, text |-> <<"B", " ", "a", "\n", "a", "\n">>]

\* Responses of the batch runs: a header, the boundary and a payload; a text
\* with no boundary; a connection that is refused; a header after which the
\* server neither sends nor closes.
OkText == <<"H", "\r", "\n", "\r", "\n", "a", " ", "B", ".", "\n">>
NoBoundaryText == <<"a", " ", "b", "\n">>
StalledText == <<"H", "\r", "\n">>
Refused == [net |-> "refused", text |-> <<>>, closes |-> TRUE]
Responses ==
    {[net |-> "ok", text |-> OkText, closes |-> TRUE],
     [net |-> "ok", text |-> NoBoundaryText, closes |-> TRUE],
     Refused,
     [net |-> "ok", text |-> StalledText, closes |-> FALSE]}

\* The response of the example run.
FoxText ==
    <<"H", "T", "T", "P", "/", "1", ".", "1", " ", "2", "0", "0", " ", "O",
      "K", "\r", "\n", "\r", "\n",
      "T", "h", "e", " ", "Q", "u", "i", "c", "k", " ", "B", "r", "o", "w",
      "n", " ", "F", "o", "x", " ", "j", "u", "m", "p", "s", ".", "\n">>

\* A response whose payload holds an empty line and a "\r" line.
GapText ==
    <<"H", " ", "x", "\r", "\n", "\r", "\n",
      "a", "\r", "\n", "\r", "\n", "\n", "b", "\n">>

\* A response that ends right after the boundary, with two header lines.
EmptyPayloadText == <<"H", "\r", "\n", "x", "\r", "\n", "\r", "\n">>

\* The characters of the exhaustively enumerated responses.
Alphabet == {"a", "B", ".", " ", "\n", "\r"}
Texts == UNION {[1..n -> Alphabet] : n \in 0..MaxLen}

NewThread ==
    [pc |-> "idle", i |-> 0, file |-> "", open |-> FALSE, bits |-> {},
     pos |-> 0, sent |-> "", hdr |-> <<>>, hdrEnd |-> 0, line |-> <<>>,
     ss |-> [text |-> <<>>, pos |-> 0, bits |-> {}], word |-> "",
     wordCount |-> 0, englishWords |-> 0, results |-> "",
     toks |-> <<>>, cls |-> <<>>]

\* What main and the threads start from, for the given arguments.
Start ==
    /\ dictionary = loadDictionary(english)
    /\ mpc = "spawn"
    /\ i = 1
    /\ thrList = <<>>
    /\ j = 0
    /\ p = 0
    /\ stats = [k \in 0..(argc - 1) |-> ""]
    /\ out = <<>>
    /\ exitCode = -1
    /\ thr = [t \in Threads |-> NewThread]
    /\ writes = [k \in 0..(argc - 1) |-> <<>>]
    /\ finished = <<>>

\* A batch: up to MaxTasks arguments, equal ones included, each connection
\* with any of the responses.
InitBatch ==
    /\ english \in {English, NoEnglish}
    /\ argc \in 1..(MaxTasks + 1)
    /\ argv \in [0..(argc - 1) -> {"hw", "x", "y"}]
    /\ argv[0] = "hw"
    /\ \A k \in 1..(argc - 1) : argv[k] # "hw"
    /\ argc > 1 => argv[1] = "x"
    /\ resp \in [Threads -> Responses]
    /\ \A t \in Threads : t >= argc => resp[t] = Refused

\* The examples: one argument, any of the word lists, the response FoxText,
\* OkText, GapText or EmptyPayloadText.
InitExamples ==
    /\ english \in {English, NoEnglish, OtherEnglish}
    /\ argc = 2
    /\ argv = [k \in 0..1 |-> IF k = 0 THEN "hw" ELSE "fox.txt"]
    /\ \E text \in {FoxText, OkText, GapText, EmptyPayloadText} :
          resp = [t \in Threads |->
                    IF t = 1 THEN [net |-> "ok", text |-> text,
                                   closes |-> TRUE]
                    ELSE Refused]

\* One argument, every response text of at most MaxLen characters.
InitTexts ==
    /\ english = English
    /\ argc = 2
    /\ argv = [k \in 0..1 |-> IF k = 0 THEN "hw" ELSE "x"]
    /\ \E text \in Texts :
          resp = [t \in Threads |->
                    IF t = 1 THEN [net |-> "ok", text |-> text,
                                   closes |-> TRUE]
                    ELSE Refused]

Init == (InitBatch \/ InitExamples \/ InitTexts) /\ Start

Next ==
    \/ Spawn
    \/ SpawnDone
    \/ Join
    \/ JoinDone
    \/ PrintLine
    \/ Exit
    \/ \E t \in Threads : Thread(t)

Spec == Init /\ [][Next]_vars

\* main is the steps of the main thread.
Main == Spawn \/ SpawnDone \/ Join \/ JoinDone \/ PrintLine \/ Exit

\* Every thread that can take a step eventually takes one (the operating
\* system's scheduler starves no thread). The inputs are those of Init with
\* the word list present: batches of one identifier whose responses are the
\* text without boundary, the refused connection and the stalled one, and
\* the single-argument runs on the texts shorter than MaxLen.
InitFair ==
    /\ \/ /\ InitBatch
          /\ \A k \in 1..(argc - 1) : argv[k] = "x"
          /\ \A t \in Threads : resp[t].text # OkText
       \/ InitTexts /\ Len(resp[1].text) < MaxLen
    /\ english = English
    /\ Start
FairSpec ==
    /\ InitFair
    /\ [][Next]_vars
    /\ WF_vars(Main)
    /\ \A t \in Threads : WF_vars(Thread(t))

\* ------------------------------------------------ what the claims refer to

Done(t) == thr[t].pc = "done"
Spawned == 1..(argc - 1)

\* The fragments of a text between runs of whitespace, left to right.
RECURSIVE SplitFrom(_, _, _, _)
SplitFrom(text, k, cur, acc) ==
    IF k > Len(text)
    THEN IF cur = <<>> THEN acc ELSE Append(acc, Str(cur))
    ELSE IF isspace(text[k])
         THEN SplitFrom(text, k + 1, <<>>,
                        IF cur = <<>> THEN acc ELSE Append(acc, Str(cur)))
         ELSE SplitFrom(text, k + 1, Append(cur, text[k]), acc)
SplitWs(text) == SplitFrom(text, 1, <<>>, <<>>)

\* The reference tokenization: punctuation to spaces, letters to lower case,
\* split on runs of whitespace.
RefTokenize(text) ==
    SplitWs([k \in DOMAIN text |->
               IF ispunct(text[k]) THEN " " ELSE tolower(text[k])])

\* The reference set: the words of the word list, none when it is missing.
RefSet ==
    IF english.exists
    THEN {SplitWs(english.text)[k] : k \in DOMAIN SplitWs(english.text)}
    ELSE {}

\* The number of members of the reference set among the tokens.
Members(toks) == Cardinality({k \in DOMAIN toks : toks[k] \in RefSet})

\* The lines of a text start at its first character and after each newline;
\* a boundary is a line that is empty or "\r".
LineStarts(text) == {b \in 1..Len(text) : b = 1 \/ text[b - 1] = "\n"}
BoundaryAt(text, b) ==
    \/ text[b] = "\n"
    \/ text[b] = "\r" /\ (b = Len(text) \/ text[b + 1] = "\n")
Boundaries(text) == {b \in LineStarts(text) : BoundaryAt(text, b)}
HasBoundary(text) == Boundaries(text) # {}

\* The number of characters up to and including the first boundary line and
\* its newline.
BoundaryEnd(text) ==
    LET b == Min(Boundaries(text))
    IN IF text[b] = "\n" \/ b = Len(text) THEN b ELSE b + 1

\* The lines after the first boundary.
PayloadOf(text) == SubSeq(text, BoundaryEnd(text) + 1, Len(text))
\* The lines before the first boundary.
HeaderOf(text) == SubSeq(text, 1, BoundaryEnd(text))

\* The statistics lines of an identifier, for counts up to n.
StatLines(file, n) ==
    {Results(file, total, known) : total \in 0..n, known \in 0..n}

\* ------------------------------------------------------------------ claims

\* C1: the lines main prints are in input order, whatever the order in which
\* the threads finish: when main has returned, there is one line per
\* identifier and the k-th line is what the thread of the k-th identifier
\* returned from getStats(argv[k]).
C1_OutputInInputOrder ==
    mpc = "done" =>
        /\ Len(out) = argc - 1
        /\ \A k \in Spawned :
              /\ thr[k].file = argv[k]
              /\ out[k] = thr[k].results

\* C1 happens: two threads finished in the reverse of the input order, with
\* different results, and main printed both.
C1_Witness ==
    /\ mpc = "done"
    /\ argc = 3
    /\ finished[1] = 2
    /\ finished[2] = 1
    /\ Len(out) = 2
    /\ out[1] # out[2]

\* C2: while main is in its print loop every spawned thread has finished and
\* the slot of every identifier holds what its thread returned.
C2_PrintAfterAllDone ==
    mpc = "print" =>
        \A t \in Spawned :
            /\ Done(t)
            /\ writes[t] = <<t>>
            /\ stats[t] = thr[t].results

\* C2 happens: main is printing the second of two results.
C2_Witness ==
    /\ mpc = "print"
    /\ argc = 3
    /\ p = 2
    /\ Len(out) = 1
    /\ stats[2] # ""

\* C3: slot k of stats is assigned by the thread of position k alone and at
\* most once, exactly once when that thread has finished; and never are two
\* threads at the same slot with one of them about to assign it: not two
\* spawned threads, and not a spawned thread and main's print loop.
C3_OwnSlotOnce ==
    /\ \A k \in DOMAIN writes :
          /\ Len(writes[k]) <= 1
          /\ \A n \in DOMAIN writes[k] : writes[k][n] = k
    /\ \A t \in Spawned : Done(t) => writes[t] = <<t>>
    /\ \A t, u \in Spawned :
          (t # u /\ thr[t].pc = "store" /\ thr[u].pc = "store")
              => Captured(t) # Captured(u)
    /\ \A t \in Spawned :
          (thr[t].pc = "store" /\ mpc = "print" /\ p < argc)
              => PrintSlot(p) # Captured(t)

\* C3 happens: two positions carry the same identifier, the thread of the
\* first has assigned its slot and the thread of the second is about to.
C3_Witness ==
    /\ argc = 3
    /\ argv[1] = argv[2]
    /\ Done(1)
    /\ thr[2].pc = "store"
    /\ thr[1].results = thr[2].results

\* C4: a thread whose connection was refused leaves in its slot a failure
\* description: a line that is none of the statistics lines of its
\* identifier.
C4_FailureReported ==
    \A t \in Spawned :
        (Done(t) /\ resp[t].net = "refused")
            => stats[t] \notin StatLines(argv[t], Len(resp[t].text))

\* C5: the result of a finished thread is a function of its own identifier,
\* its own response and the word list, whatever the other threads of the
\* batch did or do.
C5_ResultOfOwnInputs ==
    \A t \in Spawned :
        Done(t) =>
            LET text == IF resp[t].net = "ok" /\ HasBoundary(resp[t].text)
                        THEN PayloadOf(resp[t].text) ELSE <<>>
                toks == RefTokenize(text)
            IN stats[t] = Results(argv[t], Len(toks), Members(toks))

\* C5 happens: the connection of the first thread was refused, the second
\* thread counted the words of its payload, and both have finished.
C5_Witness ==
    /\ argc = 3
    /\ resp[1].net = "refused"
    /\ Done(1)
    /\ resp[2].text = OkText
    /\ Done(2)
    /\ thr[2].wordCount = 2

C7_HeaderLoopEnds ==
    \A t \in Threads :
        (/\ thr[t].pc = "header"
         /\ resp[t].net = "ok"
         /\ resp[t].closes
         /\ ~HasBoundary(resp[t].text))
            ~> (Done(t) /\ stats[t] = thr[t].results)

\* C7 happens: the header loop has ended at the end of a response that holds
\* characters and no boundary.
C7_Witness ==
    /\ thr[1].pc = "payload"
    /\ resp[1].net = "ok"
    /\ resp[1].closes
    /\ ~HasBoundary(resp[1].text)
    /\ resp[1].text # <<>>
    /\ thr[1].pos = Len(resp[1].text)
    /\ "eof" \in thr[1].bits

\* C8: on a response with a boundary, the header loop consumes exactly the
\* lines up to and including the first boundary line, and the thread counts
\* exactly the words of the lines after it.
C8_HeaderStrippedExactly ==
    \A t \in Spawned :
        (resp[t].net = "ok" /\ HasBoundary(resp[t].text)) =>
            /\ thr[t].pc \in {"payload", "words", "return", "store", "done"}
                  => thr[t].hdrEnd = BoundaryEnd(resp[t].text)
            /\ Done(t) =>
                  thr[t].wordCount =
                      Len(RefTokenize(PayloadOf(resp[t].text)))

\* C8 happens: the header holds words, the payload holds lines that are
\* themselves boundary lines with a word before and a word after them; the
\* two words of the payload alone are counted.
C8_Witness ==
    /\ Done(1)
    /\ resp[1].net = "ok"
    /\ HasBoundary(resp[1].text)
    /\ RefTokenize(HeaderOf(resp[1].text)) # <<>>
    /\ HasBoundary(PayloadOf(resp[1].text))
    /\ thr[1].wordCount = 2

\* C9: the words a thread classifies are the reference tokenization of what
\* the header loop left of the response; the example text gives the, quick,
\* brown, fox, jumps and a response without payload gives none.
C9_TokensAreReference ==
    \A t \in Spawned :
        (Done(t) /\ resp[t].net = "ok") =>
            /\ thr[t].toks =
                   RefTokenize(SubSeq(resp[t].text, thr[t].hdrEnd + 1,
                                      Len(resp[t].text)))
            /\ resp[t].text = FoxText =>
                   thr[t].toks = <<"the", "quick", "brown", "fox", "jumps">>
            /\ thr[t].hdrEnd = Len(resp[t].text) => thr[t].toks = <<>>

\* C9 happens: a payload with an upper-case letter and punctuation between
\* two letters has been classified as two words.
C9_Witness ==
    /\ Done(1)
    /\ resp[1].text = <<"\n", "a", ".", "B">>
    /\ thr[1].toks = <<"a", "b">>

\* C10: checkWord answers true exactly for the members of the reference set
\* (asked when main has returned, of words in and out of the word lists),
\* every word a finished thread classified was classified so, and its
\* recognized count is the number of its words that are members; the example
\* gives 5 words, 3 of them recognized.
C10_CheckWordIsMembership ==
    LET known == RefSet
    IN /\ mpc = "done" =>
             \A w \in {"", "a", "b", "B", "ab", "the", "quick", "brown",
                       "fox"} :
                 checkWord(w) = (w \in known)
       /\ \A t \in Spawned :
             Done(t) =>
                 /\ Len(thr[t].cls) = Len(thr[t].toks)
                 /\ \A k \in DOMAIN thr[t].toks :
                       thr[t].cls[k] = (thr[t].toks[k] \in known)
                 /\ thr[t].englishWords =
                        Cardinality({k \in DOMAIN thr[t].toks :
                                        thr[t].toks[k] \in known})
                 /\ (resp[t].text = FoxText /\ english = English)
                       => stats[t] = "fox.txt: words=5, English words=3"

\* C10 happens: the example has run with the word list that holds the,
\* quick and fox.
C10_Witness ==
    /\ Done(1)
    /\ resp[1].text = FoxText
    /\ english = English
    /\ thr[1].wordCount = 5
    /\ thr[1].englishWords = 3

C12_DictionaryNeverMutated ==
    /\ dictionary = loadDictionary(english)
    /\ [][dictionary' = dictionary]_vars

\* C12 happens: a finished thread has looked up a word that is in the
\* dictionary and a word that is not, and the dictionary holds the words of
\* the word list and no others.
C12_Witness ==
    /\ Done(1)
    /\ \E k \in DOMAIN thr[1].cls : thr[1].cls[k] = TRUE
    /\ \E k \in DOMAIN thr[1].cls : thr[1].cls[k] = FALSE
    /\ DOMAIN dictionary = RefSet

\* C13: the connection of a thread is open only while that thread is inside
\* getStats on a connection that was made; it is closed when the thread has
\* left getStats, on a refused connection as well, and none is open once
\* main prints.
C13_ConnectionClosed ==
    /\ \A t \in Threads :
          /\ thr[t].open =>
                /\ thr[t].pc \in {"request", "header", "payload", "words",
                                  "return"}
                /\ resp[t].net = "ok"
          /\ thr[t].pc \in {"store", "done"} => ~thr[t].open
    /\ mpc \in {"print", "done"} => \A t \in Threads : ~thr[t].open

\* C13 happens: main is printing after two threads, one that had sent its
\* request on an open connection and one whose connection was refused.
C13_Witness ==
    /\ mpc = "print"
    /\ argc = 3
    /\ thr[1].sent # ""
    /\ resp[2].net = "refused"
    /\ ~thr[1].open
    /\ ~thr[2].open

\* C14: when english.txt cannot be opened, the process ends before any
\* thread is spawned: no thread ever leaves its initial position and no
\* line is printed.
C14_LoadFailureIsFatal ==
    ~english.exists =>
        /\ thrList = <<>>
        /\ \A t \in Threads : thr[t].pc = "idle"
        /\ out = <<>>

\* C15: when main has returned, the exit code is a failure code when the
\* batch is not empty and the connection of every thread failed, and 0 when
\* there is no thread or one of them fetched its resource.
C15_ExitCodeReflectsFailures ==
    mpc = "done" =>
        IF argc > 1 /\ \A t \in Spawned : resp[t].net = "refused"
        THEN exitCode # 0
        ELSE exitCode = 0

\* C16: every thread enters the header loop with both counters zero, and two
\* finished threads that classified the same sequence of words against the
\* dictionary have the same total and the same recognized count, however
\* their steps were interleaved.
C16_SameTokensSameCounts ==
    /\ \A t \in Spawned :
          thr[t].pc = "header" =>
              thr[t].wordCount = 0 /\ thr[t].englishWords = 0
    /\ \A t, u \in Spawned :
          (Done(t) /\ Done(u) /\ thr[t].toks = thr[u].toks) =>
              /\ thr[t].wordCount = thr[u].wordCount
              /\ thr[t].englishWords = thr[u].englishWords

\* C16 happens: two threads have classified the same two words, one of them
\* recognized, and both have finished.
C16_Witness ==
    /\ argc = 3
    /\ Done(1)
    /\ Done(2)
    /\ thr[1].toks = thr[2].toks
    /\ thr[1].toks = <<"a", "b">>
    /\ thr[2].englishWords = 1

\* C17: a response that ends right after its boundary gives a finished
\* thread no word to classify, both counts zero, and the normal statistics
\* line with both counts zero in its slot.
C17_EmptyPayloadCountsZero ==
    \A t \in Spawned :
        (/\ Done(t)
         /\ resp[t].net = "ok"
         /\ HasBoundary(resp[t].text)
         /\ PayloadOf(resp[t].text) = <<>>)
            => /\ thr[t].toks = <<>>
               /\ thr[t].wordCount = 0
               /\ thr[t].englishWords = 0
               /\ stats[t] = Results(argv[t], 0, 0)

\* C17 happens: the response with two header lines and nothing after the
\* boundary has been processed and its line stored.
C17_Witness ==
    /\ Done(1)
    /\ resp[1].text = EmptyPayloadText
    /\ stats[1] = "fox.txt: words=0, English words=0"

\* C18: when the response of every thread ends, main eventually returns
\* having printed one line per identifier, every thread finished; and while
\* the response of some thread never ends, main stays in its spawn and join
\* loops and no line is printed, whatever the other threads have done.
C18_FanIn ==
    /\ (\A t \in Spawned : resp[t].closes)
          ~> (/\ mpc = "done"
              /\ Len(out) = argc - 1
              /\ \A t \in Spawned : Done(t))
    /\ []((\E t \in Spawned : ~resp[t].closes) =>
              /\ mpc \in {"spawn", "join"}
              /\ out = <<>>)

\* C18 happens: the first thread waits in std::getline for a response that
\* never ends, the second thread has finished, and main waits in join with
\* nothing printed.
C18_Witness ==
    /\ argc = 3
    /\ mpc = "join"
    /\ thr[1].pc = "header"
    /\ GetLineBlocks(resp[1].text, thr[1].pos, resp[1].closes, thr[1].bits)
    /\ Done(2)
    /\ stats[2] # ""
    /\ out = <<>>

\* C19: on a refused connection no request is written, no read consumes
\* anything, the inner loop is never entered, and the finished thread has
\* the normal statistics line with both counts zero in its slot.
C19_RefusedGivesZeroLine ==
    \A t \in Spawned :
        resp[t].net = "refused" =>
            /\ thr[t].sent = ""
            /\ thr[t].pos = 0
            /\ thr[t].hdrEnd = 0
            /\ thr[t].pc # "words"
            /\ thr[t].toks = <<>>
            /\ Done(t) => stats[t] = Results(argv[t], 0, 0)

\* C19 happens: the only thread of a run had its connection refused and has
\* stored its line.
C19_Witness ==
    /\ argc = 2
    /\ resp[1].net = "refused"
    /\ Done(1)
    /\ stats[1] = "x: words=0, English words=0"

====
